---- MODULE Spec2Model ----
(***************************************************************************)
(* ember-changeset: the EmberChangeset buffered store (addon/index.js).    *)
(*                                                                         *)
(* A JavaScript value is a record [t, v]: t is its kind and v its payload. *)
(*   "undef", "null"  undefined and null                                   *)
(*   "prim"           a string or number, v the text                       *)
(*   "bool"           a boolean                                            *)
(*   "fn"             a method of the store, v its name                    *)
(*   "arr"            an array, v the sequence of its elements             *)
(*   "obj"            a plain object, v a function from its keys           *)
(*   "belongsTo"      an object tagged as a to-one relationship            *)
(*   "change"         a Change wrapper, v the staged value                 *)
(* A dotted key 'user.name' is the sequence <<"user", "name">>, so that    *)
(* key.split('.') is the key itself and join('.') is concatenation.        *)
(***************************************************************************)
EXTENDS Integers, Sequences, FiniteSets, TLC

VARIABLES content, changes, errors, notes, created, executions, prev, last, ops,
          pending

vars == <<content, changes, errors, notes, created, executions, prev, last, ops,
          pending>>

(* ---------------------------------------------------------------- values *)

Undef == [t |-> "undef", v |-> <<>>]
Null == [t |-> "null", v |-> <<>>]
Str(s) == [t |-> "prim", v |-> s]
Bool(b) == [t |-> "bool", v |-> b]
Fn(n) == [t |-> "fn", v |-> n]
Arr(q) == [t |-> "arr", v |-> q]
Obj(f) == [t |-> "obj", v |-> f]
Change(x) == [t |-> "change", v |-> x]
BelongsTo(f) == [t |-> "belongsTo", v |-> f]

NoKeys == [k \in {} |-> Undef]
EmptyObj == Obj(NoKeys)

(* { ...f, [key]: val } *)
With(f, key, val) == [k \in (DOMAIN f) \cup {key} |-> IF k = key THEN val ELSE f[k]]

(* delete f[key] *)
Without(f, key) == [k \in (DOMAIN f) \ {key} |-> f[k]]

(* { ...f, ...g } *)
Spread(f, g) == [k \in (DOMAIN f) \cup (DOMAIN g) |-> IF k \in DOMAIN g THEN g[k] ELSE f[k]]

(* Array.isArray(val) *)
IsArray(x) == x.t = "arr"

(* a value with own enumerable string keys held in v as a function *)
HasKeys(x) == x.t \in {"obj", "belongsTo"}

(* Object.keys(val) *)
Keys(x) == IF HasKeys(x) THEN DOMAIN x.v ELSE {}

(* utils/is-object.js: not null, not a Date, not an array, typeof 'object' *)
(* a Change instance is an object too                                      *)
isObject(val) == val.t \in {"obj", "belongsTo", "change"}

(* JavaScript truthiness, as in `if (result)` and `this[baseKey]` *)
Truthy(x) ==
  /\ x.t \notin {"undef", "null"}
  /\ (x.t = "bool" => x.v)
  /\ (x.t = "prim" => x.v # "")

(* val[k] for one key *)
Prop(x, k) ==
  IF HasKeys(x) /\ k \in DOMAIN x.v THEN x.v[k]
  ELSE IF x.t = "change" /\ k = "value" THEN x.v
  ELSE Undef

(* Ember's get(obj, 'a.b.c'): undefined as soon as a segment is missing *)
RECURSIVE getDeep(_, _)
getDeep(obj, path) ==
  IF path = <<>> THEN obj
  ELSE IF obj.t \in {"undef", "null"} THEN Undef
  ELSE getDeep(Prop(obj, Head(path)), Tail(path))

safeGet(obj, key) == getDeep(obj, key)

(* ------------------------------------------- collaborators of the store *)

(* normalizeObject: a Change wrapper becomes the value it wraps, at every  *)
(* level of a nested tree of plain objects                                 *)
RECURSIVE normalizeObject(_)
normalizeObject(target) ==
  IF target.t = "change" THEN target.v
  ELSE IF target.t = "obj"
    THEN Obj([k \in DOMAIN target.v |-> normalizeObject(target.v[k])])
  ELSE target

(* setDeep(target, 'a.b.c', value): writes value at the path, creating the *)
(* skeleton of plain objects on the way; a node on the way that is not a   *)
(* plain object (absent, or a leaf Change) is replaced by a fresh skeleton *)
RECURSIVE setDeep(_, _, _)
setDeep(target, path, value) ==
  IF Len(path) = 1 THEN Obj(With(target.v, Head(path), value))
  ELSE LET k == Head(path)
           child == IF k \in DOMAIN target.v /\ target.v[k].t = "obj"
                    THEN target.v[k] ELSE EmptyObj
       IN Obj(With(target.v, k, setDeep(child, Tail(path), value)))

(* delete of the entry at a path of a nested map; nothing when absent *)
RECURSIVE deleteDeep(_, _)
deleteDeep(target, path) ==
  LET k == Head(path) IN
  IF ~(HasKeys(target) /\ k \in DOMAIN target.v) THEN target
  ELSE IF Len(path) = 1 THEN Obj(Without(target.v, k))
  ELSE Obj(With(target.v, k, deleteDeep(target.v[k], Tail(path))))

(* a plain mergeable object of the deep merge: not an array, not null, not *)
(* a leaf Change; a relationship object is none of the excluded values     *)
isMergeableObject(val) == val.t \in {"obj", "belongsTo"}

(* utils/merge-deep: for every key of source, recurse when destination and *)
(* source both hold a plain mergeable object there, else write the         *)
(* source's value (unwrapped) over the destination's                       *)
RECURSIVE mergeDeep(_, _)
mergeDeep(target, source) ==
  [t |-> target.t, v |->
      [k \in (DOMAIN target.v) \cup (DOMAIN source.v) |->
        IF k \notin DOMAIN source.v THEN target.v[k]
        ELSE IF k \in DOMAIN target.v
                /\ isMergeableObject(target.v[k]) /\ isMergeableObject(source.v[k])
          THEN mergeDeep(target.v[k], source.v[k])
        ELSE normalizeObject(source.v[k])]]

(* utils/is-leaf: the key is a terminal entry of the changes map *)
isLeafInChanges(key, chg) == getDeep(chg, key).t = "change"

(* utils/is-belongs-to-relationship *)
isBelongsToRelationship(obj) == obj.t = "belongsTo"

(* BufferedChangeset getters *)
isValid == DOMAIN errors = {}

isDirty == DOMAIN changes.v # {}

(* this[key]: the members the store itself exposes under a plain property  *)
(* name; a dotted key names no member                                      *)
StoreMembers == {"isValid", "isDirty", "_content", "_changes", "execute"}

This(key) ==
  IF Len(key) # 1 \/ key[1] \notin StoreMembers THEN Undef
  ELSE CASE key[1] = "isValid" -> Bool(isValid)
         [] key[1] = "isDirty" -> Bool(isDirty)
         [] key[1] = "_content" -> content
         [] key[1] = "_changes" -> changes
         [] key[1] = "execute" -> Fn("execute")

(* ------------------------------------------------------------ get(key)  *)

(* step 3 of the sibling merge: a shallow copy of result, then one pass    *)
(* over the keys of the content at the key                                 *)
mergeSiblings(key, result, contentAtLeaf) ==
  LET own == IF HasKeys(result) THEN result.v ELSE NoKeys
  IN Obj([k \in (DOMAIN own) \cup Keys(contentAtLeaf) |->
       IF k \notin Keys(contentAtLeaf) THEN own[k]
       ELSE LET inResult == Prop(result, k)
                contentData == getDeep(content, key \o <<k>>)
            IN IF isObject(contentData) /\ isObject(inResult)
                 THEN Obj(Spread(contentData.v, inResult.v))
               ELSE IF inResult.t = "undef" THEN contentData
               ELSE inResult])

(* fromChanges with arrays let into the sibling merge: the elements of the  *)
(* content's array fill in behind those of the staged one                  *)
fromChanges_arrayMerge(key, raw) ==
  LET result == normalizeObject(raw)
      contentAtLeaf == getDeep(content, key)
  IN IF IsArray(result) /\ IsArray(contentAtLeaf) /\ Len(contentAtLeaf.v) > Len(result.v)
       THEN Arr(result.v \o SubSeq(contentAtLeaf.v, Len(result.v) + 1, Len(contentAtLeaf.v)))
     ELSE IF /\ ~IsArray(result)
             /\ isObject(contentAtLeaf)
             /\ ~isBelongsToRelationship(contentAtLeaf)
             /\ ~isLeafInChanges(key, changes)
       THEN IF Keys(contentAtLeaf) = {} THEN result
            ELSE mergeSiblings(key, result, contentAtLeaf)
     ELSE result

(* fromChanges without the look at the relationship tag of the content *)
fromChanges_mergesRelationship(key, raw) ==
  LET result == normalizeObject(raw)
      contentAtLeaf == getDeep(content, key)
  IN IF /\ ~IsArray(result)
        /\ isObject(contentAtLeaf)
        /\ ~isLeafInChanges(key, changes)
       THEN IF Keys(contentAtLeaf) = {} THEN result
            ELSE mergeSiblings(key, result, contentAtLeaf)
     ELSE result

(* fromChanges without the look for a terminal entry at the key *)
fromChanges_mergesLeaf(key, raw) ==
  LET result == normalizeObject(raw)
      contentAtLeaf == getDeep(content, key)
  IN IF /\ ~IsArray(result)
        /\ isObject(contentAtLeaf)
        /\ ~isBelongsToRelationship(contentAtLeaf)
       THEN IF Keys(contentAtLeaf) = {} THEN result
            ELSE mergeSiblings(key, result, contentAtLeaf)
     ELSE result

(* the branch taken when CHANGES holds an object for the key: the Change   *)
(* instances are knocked out and the sibling keys of the content merged in *)
fromChanges(key, raw) ==
  LET result == normalizeObject(raw)
      contentAtLeaf == getDeep(content, key)
  IN IF /\ ~IsArray(result)
        /\ isObject(contentAtLeaf)
        /\ ~isBelongsToRelationship(contentAtLeaf)
        /\ ~isLeafInChanges(key, changes)
       THEN IF Keys(contentAtLeaf) = {} THEN result
            ELSE mergeSiblings(key, result, contentAtLeaf)
     ELSE result

(* fromStoreOrContent without the look at the store's own members *)
fromStoreOrContent_contentOnly(key) == getDeep(content, key)

(* fromStoreOrContent that answers with the value of the error recorded   *)
(* at the key before it looks any further                                 *)
fromStoreOrContent_errorValue(key) ==
  LET baseKey == <<Head(key)>>
      remaining == Tail(key)
  IN IF key \in DOMAIN errors THEN errors[key].value
     ELSE IF This(key).t # "undef" THEN This(key)
     ELSE IF Truthy(This(baseKey)) /\ isObject(This(baseKey))
       THEN getDeep(This(baseKey), remaining)
     ELSE getDeep(content, key)

(* steps 2 and 3 of get: the store's own members, then the content *)
fromStoreOrContent(key) ==
  LET baseKey == <<Head(key)>>
      remaining == Tail(key)
  IN IF This(key).t # "undef" THEN This(key)
     ELSE IF Truthy(This(baseKey)) /\ isObject(This(baseKey))
       THEN getDeep(This(baseKey), remaining)
     ELSE getDeep(content, key)

get(key) ==
  LET baseKey == Head(key)
      remaining == Tail(key)
  IN IF baseKey \in DOMAIN changes.v
       THEN LET c == changes.v[baseKey]
                result == IF Len(remaining) > 0
                          THEN getDeep(normalizeObject(c), remaining)
                          ELSE c
            IN IF Len(remaining) > 0 /\ result.t # "undef" /\ ~isObject(result)
                 THEN result
               ELSE IF result.t \notin {"undef", "null"} /\ isObject(result)
                 THEN fromChanges(key, result)
               ELSE IF Truthy(result) THEN Prop(result, "value")
               ELSE fromStoreOrContent(key)
     ELSE fromStoreOrContent(key)

(* ------------------------------------------------------- the store's ops *)

(* the number of calls made on one store *)
MaxOps == 3

CHANGES == <<"_changes">>
ERRORS == <<"_errors">>

NoErrors == [p \in {} |-> [value |-> Undef, validation |-> <<>>]]

(* notifyPropertyChange(this, key): the key notified, and the maps of the  *)
(* store as an observer called back by the notification reads them         *)
Note(key, chg, errs) == [key |-> key, changes |-> chg, errors |-> errs]

(* BufferedChangeset.addError: the record at key is overwritten *)
super_addError(errs, key, error) == With(errs, key, error)

(* BufferedChangeset.pushErrors: the messages are appended to the record *)
(* at key                                                                *)
super_pushErrors(errs, key, newErrors) ==
  LET existing == IF key \in DOMAIN errs THEN errs[key]
                  ELSE [value |-> Undef, validation |-> <<>>]
  IN With(errs, key, [value |-> existing.value,
                      validation |-> existing.validation \o newErrors])

(* BufferedChangeset._setProperty: the value is staged at key *)
super_setProperty(chg, key, value) == setDeep(chg, key, Change(value))

(* what one call leaves in the history variables *)
Record(op, obj, key, value, ok) ==
  /\ ops < MaxOps
  /\ ops' = ops + 1
  /\ prev' = [content |-> content, changes |-> changes, errors |-> errors,
              pending |-> pending]
  /\ last' = [op |-> op, obj |-> obj, key |-> key, value |-> value, ok |-> ok,
              pre |-> IF key = <<>> THEN Undef ELSE get(key),
              stale |-> FALSE]
  /\ created' = created
  /\ pending' = pending

(* addError that also drops the value staged at the key *)
addError_dropsChange(key, error) ==
  /\ errors' = super_addError(errors, key, error)
  /\ changes' = deleteDeep(changes, key)
  /\ notes' = <<Note(ERRORS, changes', errors'), Note(key, changes', errors')>>
  /\ UNCHANGED <<content, executions>>

(* addError that notifies before it delegates to the base class *)
addError_notifiesFirst(key, error) ==
  /\ notes' = <<Note(ERRORS, changes, errors), Note(key, changes, errors)>>
  /\ errors' = super_addError(errors, key, error)
  /\ UNCHANGED <<content, changes, executions>>

addError(key, error) ==
  /\ errors' = super_addError(errors, key, error)
  /\ notes' = <<Note(ERRORS, changes, errors'), Note(key, changes, errors')>>
  /\ UNCHANGED <<content, changes, executions>>

pushErrors(key, newErrors) ==
  /\ errors' = super_pushErrors(errors, key, newErrors)
  /\ notes' = <<Note(ERRORS, changes, errors'), Note(key, changes, errors')>>
  /\ UNCHANGED <<content, changes, executions>>

(* _setProperty that writes the value through to the content *)
_setProperty_writeThrough(key, value, oldValue) ==
  /\ changes' = super_setProperty(changes, key, value)
  /\ content' = setDeep(content, key, value)
  /\ notes' = <<Note(CHANGES, changes', errors'), Note(key, changes', errors')>>
  /\ UNCHANGED executions

_setProperty(key, value, oldValue) ==
  /\ changes' = super_setProperty(changes, key, value)
  /\ notes' = <<Note(CHANGES, changes', errors'), Note(key, changes', errors')>>
  /\ UNCHANGED <<content, executions>>

_deleteKey(objName, key) ==
  /\ IF objName = "_changes"
       THEN changes' = deleteDeep(changes, key) /\ errors' = errors
       ELSE errors' = Without(errors, key) /\ changes' = changes
  /\ notes' = <<Note(<<objName>> \o key, changes', errors'),
                Note(<<objName>>, changes', errors')>>
  /\ UNCHANGED <<content, executions>>

(* execute that does not look at isValid *)
execute_ungated ==
  /\ IF isDirty
       THEN content' = mergeDeep(content, changes) /\ executions' = executions + 1
       ELSE UNCHANGED <<content, executions>>
  /\ notes' = <<>>
  /\ UNCHANGED <<changes, errors>>

(* execute that assigns the top-level entries instead of merging deeply *)
execute_assign ==
  /\ IF isValid /\ isDirty
       THEN /\ content' = Obj(Spread(content.v, normalizeObject(changes).v))
            /\ executions' = executions + 1
       ELSE UNCHANGED <<content, executions>>
  /\ notes' = <<>>
  /\ UNCHANGED <<changes, errors>>

(* execute that empties CHANGES after the merge *)
execute_clears ==
  /\ IF isValid /\ isDirty
       THEN /\ content' = mergeDeep(content, changes)
            /\ executions' = executions + 1
            /\ changes' = EmptyObj
       ELSE UNCHANGED <<content, executions, changes>>
  /\ notes' = <<>>
  /\ UNCHANGED errors

(* a deep merge that appends a staged array to the array it replaces *)
RECURSIVE mergeDeep_append(_, _)
mergeDeep_append(target, source) ==
  [t |-> target.t, v |->
      [k \in (DOMAIN target.v) \cup (DOMAIN source.v) |->
        IF k \notin DOMAIN source.v THEN target.v[k]
        ELSE IF k \in DOMAIN target.v
                /\ isMergeableObject(target.v[k]) /\ isMergeableObject(source.v[k])
          THEN mergeDeep_append(target.v[k], source.v[k])
        ELSE IF k \in DOMAIN target.v /\ IsArray(target.v[k])
                /\ IsArray(normalizeObject(source.v[k]))
          THEN Arr(target.v[k].v \o normalizeObject(source.v[k]).v)
        ELSE normalizeObject(source.v[k])]]

(* execute whose merge appends to arrays instead of replacing them *)
execute_appends ==
  /\ IF isValid /\ isDirty
       THEN /\ content' = mergeDeep_append(content, changes)
            /\ executions' = executions + 1
       ELSE UNCHANGED <<content, executions>>
  /\ notes' = <<>>
  /\ UNCHANGED <<changes, errors>>

execute ==
  /\ IF isValid /\ isDirty
       THEN content' = mergeDeep(content, changes) /\ executions' = executions + 1
       ELSE UNCHANGED <<content, executions>>
  /\ notes' = <<>>
  /\ UNCHANGED <<changes, errors>>

(* BufferedChangeset.set with the validator's verdict: a passing value is  *)
(* staged and the error at the key removed, a failing one is recorded as   *)
(* an error                                                                *)
set(key, value, valid) ==
  IF valid
    THEN /\ errors' = Without(errors, key)
         /\ _setProperty(key, value, safeGet(content, key))
    ELSE addError(key, [value |-> value, validation |-> <<"invalid">>])

(* ------------------------------------------------- contents and inputs  *)

Rec1(k1, v1) == [k \in {k1} |-> v1]
Rec2(k1, v1, k2, v2) == [k \in {k1, k2} |-> IF k = k1 THEN v1 ELSE v2]

Geo == Obj(Rec2("lat", Str("1"), "lng", Str("2")))
Addr == Obj(Rec2("city", Str("X"), "geo", Geo))
User == Obj([k \in {"name", "email", "addr"} |->
          CASE k = "name" -> Str("A") [] k = "email" -> Str("e") [] k = "addr" -> Addr])

(* { age: '10', tags: ['a', 'b'], user: { name, email, addr: { city, geo: { lat, lng } } } } *)
Person == Obj([k \in {"age", "tags", "user"} |->
            CASE k = "age" -> Str("10") [] k = "tags" -> Arr(<<"a", "b">>) [] k = "user" -> User])

(* { age: '10' } *)
Plain == Obj(Rec1("age", Str("10")))

(* { age: '10', user: <belongsTo> { name: 'A', email: 'e' } } *)
Owned == Obj(Rec2("age", Str("10"), "user",
               BelongsTo(Rec2("name", Str("A"), "email", Str("e")))))

Contents == {Person, Plain, Owned}

(* the calls set(key, value) a caller makes *)
SetInputs ==
  { << <<"age">>, Str("B") >>,
    << <<"age">>, Null >>,
    << <<"user", "addr", "city">>, Str("Y") >>,
    << <<"tags">>, Arr(<<"c">>) >>,
    << <<"user">>, Obj(Rec1("name", Str("B"))) >>,
    << <<"user", "name">>, Str("B") >>,
    << <<"user", "name">>, Undef >>,
    << <<"user", "addr", "geo", "lat">>, Str("B") >> }

(* the keys of addError, pushErrors and _deleteKey *)
ErrorKeys == { <<"age">>, <<"user", "name">> }

(* the keys a caller reads *)
ReadKeys ==
  { <<"age">>, <<"tags">>, <<"user">>, <<"user", "name">>, <<"user", "email">>,
    <<"user", "addr">>, <<"user", "addr", "geo">>, <<"user", "addr", "geo", "lat">>,
    <<"user", "addr", "geo", "lng">>, <<"isValid">>, <<"_content", "age">>, <<"zip">> }

(* ------------------------------------------------------ the state machine *)

Init ==
  /\ content \in Contents
  /\ changes = EmptyObj
  /\ errors = NoErrors
  /\ notes = <<>>
  /\ created = content
  /\ executions = 0
  /\ prev = [content |-> content, changes |-> EmptyObj, errors |-> NoErrors,
             pending |-> <<>>]
  /\ last = [op |-> "new", obj |-> "", key |-> <<>>, value |-> Undef, ok |-> TRUE,
             pre |-> Undef, stale |-> FALSE]
  /\ ops = 0
  /\ pending = <<>>

SetPass ==
  \E in \in SetInputs :
    set(in[1], in[2], TRUE) /\ Record("set", "", in[1], in[2], TRUE)

SetFail ==
  \E in \in SetInputs :
    set(in[1], in[2], FALSE) /\ Record("set", "", in[1], in[2], FALSE)

AddError ==
  \E key \in ErrorKeys :
    /\ addError(key, [value |-> Str("E"), validation |-> <<"manual">>])
    /\ Record("addError", "", key, Str("E"), FALSE)

PushErrors ==
  \E key \in ErrorKeys :
    pushErrors(key, <<"pushed">>) /\ Record("pushErrors", "", key, Undef, FALSE)

DeleteKey ==
  \E objName \in {"_changes", "_errors"}, key \in ErrorKeys :
    _deleteKey(objName, key) /\ Record("_deleteKey", objName, key, Undef, TRUE)

Execute ==
  execute /\ Record("execute", "", <<>>, Undef, isValid /\ isDirty)

(* a get whose merged view of an object is written into the content *)
Get_writesMergedView ==
  \E key \in ReadKeys :
    /\ content' = IF get(key).t = "obj" /\ getDeep(content, key).t = "obj"
                    THEN setDeep(content, key, get(key))
                  ELSE content
    /\ UNCHANGED <<changes, errors, notes, executions>>
    /\ Record("get", "", key, Undef, TRUE)

Get ==
  \E key \in ReadKeys :
    /\ UNCHANGED <<content, changes, errors, notes, executions>>
    /\ Record("get", "", key, Undef, TRUE)

Next == SetPass \/ SetFail \/ AddError \/ PushErrors \/ DeleteKey \/ Execute \/ Get

Spec == Init /\ [][Next]_vars

(* ------------------------------------------------------- the construction *)

(* the first arguments construction is called with: nothing, null, '',     *)
(* false, two arrays, a string and the three contents                      *)
Candidates ==
  {Undef, Null, Str(""), Bool(FALSE), Arr(<<>>), Arr(<<"a">>), Str("x")} \cup Contents

(* the three entries to construction *)
Factories == {"changeset", "Changeset", "ChangesetKlass"}

(* no store has been constructed *)
NoStore == content = Undef /\ changes = Undef /\ created = Undef

InitNoStore ==
  /\ NoStore
  /\ errors = NoErrors
  /\ notes = <<>>
  /\ executions = 0
  /\ prev = [content |-> Undef, changes |-> Undef, errors |-> NoErrors,
             pending |-> <<>>]
  /\ last = [op |-> "none", obj |-> "", key |-> <<>>, value |-> Undef, ok |-> TRUE,
             pre |-> Undef, stale |-> FALSE]
  /\ ops = 0
  /\ pending = <<>>

(* changeset that lets an array through: the second assertion is missing *)
changeset_arrays(obj) ==
  IF ~Truthy(obj)
    THEN UNCHANGED <<content, changes, errors, created>>
    ELSE /\ content' = obj
         /\ changes' = EmptyObj
         /\ errors' = NoErrors
         /\ created' = obj

(* changeset(obj, ...): the two assertions throw before anything is        *)
(* constructed; past them new EmberChangeset(obj, ...) starts with empty   *)
(* CHANGES and ERRORS                                                      *)
changeset(obj) ==
  IF ~Truthy(obj) \/ IsArray(obj)
    THEN UNCHANGED <<content, changes, errors, created>>
    ELSE /\ content' = obj
         /\ changes' = EmptyObj
         /\ errors' = NoErrors
         /\ created' = obj

(* a call of one of the factories while no store exists; Changeset and     *)
(* ChangesetKlass call changeset and wrap what it returns in a Proxy       *)
Create ==
  \E obj \in Candidates, via \in Factories :
    /\ NoStore
    /\ changeset(obj)
    /\ prev' = [content |-> content, changes |-> changes, errors |-> errors,
                pending |-> pending]
    /\ last' = [op |-> "changeset", obj |-> via, key |-> <<>>, value |-> obj,
                ok |-> (created' # Undef), pre |-> Undef,
                stale |-> FALSE]
    /\ UNCHANGED <<notes, executions, ops, pending>>

(* the calls are made on a store, and on one over an object *)
NextCreate == Create \/ (~NoStore /\ isObject(content) /\ Next)

SpecCreate == InitNoStore /\ [][NextCreate]_vars

(* ------------------------------------------- asynchronous validation      *)

(* the calls set(key, value) whose validator returns a promise *)
AsyncInputs == { in \in SetInputs : in[1] \in ErrorKeys }

(* a call whose validation is in flight; stale once another call on the    *)
(* same key, in flight with it, has resolved first                         *)
Call(key, value) == [key |-> key, value |-> value, stale |-> FALSE]

(* set that stages the value when called, before the validator answers *)
setAsync_stagesEagerly(key, value) ==
  /\ pending' = Append(pending, Call(key, value))
  /\ UNCHANGED errors
  /\ _setProperty(key, value, safeGet(content, key))

(* BufferedChangeset.set with a validator that returns a promise: the call *)
(* returns with its validation in flight and the store as it was           *)
setAsync(key, value) ==
  /\ pending' = Append(pending, Call(key, value))
  /\ UNCHANGED <<content, changes, errors, notes, executions>>

(* the promise of the i-th call in flight resolves: the branch of set for  *)
(* the verdict is applied and the call is in flight no more                *)
resolve(i, valid) ==
  /\ set(pending[i].key, pending[i].value, valid)
  /\ pending' = [j \in 1..(Len(pending) - 1) |->
                   LET call == IF j < i THEN pending[j] ELSE pending[j + 1]
                   IN [call EXCEPT !.stale = @ \/ call.key = pending[i].key]]

SetAsync ==
  \E in \in AsyncInputs :
    /\ ops < MaxOps
    /\ setAsync(in[1], in[2])
    /\ ops' = ops + 1
    /\ prev' = [content |-> content, changes |-> changes, errors |-> errors,
                pending |-> pending]
    /\ last' = [op |-> "setAsync", obj |-> "", key |-> in[1], value |-> in[2],
                ok |-> TRUE, pre |-> get(in[1]), stale |-> FALSE]
    /\ created' = created

(* resolutions come in any order, whatever the order of the calls *)
Resolve(valid) ==
  \E i \in DOMAIN pending :
    /\ resolve(i, valid)
    /\ prev' = [content |-> content, changes |-> changes, errors |-> errors,
                pending |-> pending]
    /\ last' = [op |-> "resolve", obj |-> "", key |-> pending[i].key,
                value |-> pending[i].value, ok |-> valid,
                pre |-> get(pending[i].key), stale |-> pending[i].stale]
    /\ UNCHANGED <<created, ops>>

ResolvePass == Resolve(TRUE)

ResolveFail == Resolve(FALSE)

(* the sets whose validation is in flight, next to the synchronous sets,  *)
(* the commits and the reads                                              *)
NextAsync ==
  SetAsync \/ ResolvePass \/ ResolveFail \/ SetPass \/ SetFail \/ Execute \/ Get

SpecAsync == Init /\ [][NextAsync]_vars

(* ------------------------------------------------- vocabulary of claims *)

(* every path of the contents and of the inputs *)
AllPaths ==
  ReadKeys \cup { in[1] : in \in SetInputs }

PrevValid == DOMAIN prev.errors = {}
PrevDirty == DOMAIN prev.changes.v # {}

(* the node holds a staged value, itself or somewhere below *)
RECURSIVE HasLeaf(_)
HasLeaf(node) ==
  \/ node.t = "change"
  \/ node.t = "obj" /\ \E k \in DOMAIN node.v : HasLeaf(node.v[k])

(* a staged value sits at path in chg *)
LeafAt(chg, path) == getDeep(chg, path).t = "change"

(* a staged value sits at a proper prefix of path *)
LeafAbove(chg, path) ==
  \E i \in 1..(Len(path) - 1) : LeafAt(chg, SubSeq(path, 1, i))

(* no staged value at, above or below path *)
Untouched(chg, path) ==
  ~LeafAt(chg, path) /\ ~LeafAbove(chg, path) /\ ~HasLeaf(getDeep(chg, path))

(* Changes holds nothing for path: no node at it, no staged value above it *)
NoChangeAt(path) ==
  getDeep(changes, path).t = "undef" /\ ~LeafAbove(changes, path)

(* C1: execute() changes Content only when Errors is empty and Changes is  *)
(* not; when either fails it leaves Content, Changes and Errors as they    *)
(* were.                                                                   *)
C1_ExecuteGated ==
  last.op = "execute" =>
    /\ (content # prev.content => PrevValid /\ PrevDirty)
    /\ (~(PrevValid /\ PrevDirty) =>
          content = prev.content /\ changes = prev.changes /\ errors = prev.errors)

(* an error pending on one key has blocked the commit of a change staged   *)
(* on another                                                              *)
C1_Witness ==
  /\ last.op = "execute" /\ ~last.ok
  /\ <<"age">> \in DOMAIN errors
  /\ LeafAt(changes, <<"user", "name">>)
  /\ content = created

(* C2: without an execute(), whatever set, addError, pushErrors,           *)
(* _deleteKey and get were called, Content equals what it was at           *)
(* construction; no call but execute() changes Content.                    *)
C2_OnlyExecuteMutatesContent ==
  /\ (executions = 0 => content = created)
  /\ (last.op # "execute" => content = prev.content)

(* changes and errors are pending after three calls, none an execute *)
C2_Witness ==
  /\ executions = 0 /\ ops = MaxOps /\ last.op # "execute"
  /\ isDirty /\ ~isValid
  /\ content = Person

(* C3: when execute() fires, every staged value is read at its path in     *)
(* Content and by get, and every path of the prior Content with no staged  *)
(* value at, above or below it keeps its value.                            *)
C3_ExecuteMerges ==
  last.op = "execute" /\ last.ok =>
    \A P \in AllPaths :
      /\ LeafAt(prev.changes, P) =>
           /\ getDeep(content, P) = getDeep(prev.changes, P).v
           /\ get(P) = getDeep(prev.changes, P).v
      /\ (getDeep(prev.content, P).t # "undef" /\ Untouched(prev.changes, P)) =>
           getDeep(content, P) = getDeep(prev.content, P)

(* a nested field was committed next to its unedited sibling *)
C3_Witness ==
  /\ last.op = "execute" /\ last.ok
  /\ LeafAt(prev.changes, <<"user", "name">>)
  /\ getDeep(content, <<"user", "name">>) = Str("B")
  /\ getDeep(content, <<"user", "email">>) = Str("e")

(* C4: after set(P, V) with a passing validator, get(P) equals V and       *)
(* Errors holds no entry for P.                                            *)
C4_SetPassReadsBack ==
  last.op = "set" /\ last.ok =>
    get(last.key) = last.value /\ last.key \notin DOMAIN errors

C6_ChangeXorError ==
  \A P \in DOMAIN errors : ~LeafAt(changes, P)

(* C7 as stated: for every key with no pending change and no pending       *)
(* error, also one that names a member of the store, get(P) equals         *)
(* safeGet(Content, P).                                                    *)
C7_GetIsContentRead ==
  \A P \in ReadKeys :
    (NoChangeAt(P) /\ P \notin DOMAIN errors) => get(P) = safeGet(content, P)

(* C7, amended: for every key with no pending change and no pending error, *)
(* get(P) equals safeGet(Content, P) when the first segment of P names no  *)
(* member of the store; a key that names a member reads that member, and a *)
(* dotted key below a member that is an object reads off that object.      *)
C7_GetFallsThrough ==
  \A P \in ReadKeys :
    (NoChangeAt(P) /\ P \notin DOMAIN errors) =>
      /\ Head(P) \notin StoreMembers => get(P) = safeGet(content, P)
      /\ (Head(P) \in StoreMembers /\ Len(P) = 1) => get(P) = This(P)
      /\ (Head(P) \in {"_content", "_changes"} /\ Len(P) > 1) =>
           get(P) = getDeep(This(<<Head(P)>>), Tail(P))

(* with user.name staged, the unedited sibling user.email was read *)
C7_Witness ==
  /\ last.op = "get" /\ last.key = <<"user", "email">>
  /\ LeafAt(changes, <<"user", "name">>)
  /\ NoChangeAt(last.key)
  /\ last.pre = Str("e")

(* Q lies strictly below P *)
IsBelow(P, Q) == Len(Q) > Len(P) /\ SubSeq(Q, 1, Len(P)) = P

Rest(P, Q) == SubSeq(Q, Len(P) + 1, Len(Q))

(* C8: when Content holds a plain object at P and only fields below P, at  *)
(* any depth, are staged, get(P) shows every staged field with its new     *)
(* value and every unedited field of Content with its Content value, and   *)
(* Content stays as constructed until execute().                           *)
C8_SiblingMerge ==
  \A P \in AllPaths :
    (/\ getDeep(content, P).t = "obj"
     /\ ~LeafAt(changes, P) /\ ~LeafAbove(changes, P)
     /\ HasLeaf(getDeep(changes, P))) =>
      /\ \A Q \in AllPaths : IsBelow(P, Q) =>
           /\ LeafAt(changes, Q) =>
                getDeep(get(P), Rest(P, Q)) = getDeep(changes, Q).v
           /\ (getDeep(content, Q).t # "undef" /\ Untouched(changes, Q)) =>
                getDeep(get(P), Rest(P, Q)) = getDeep(content, Q)
      /\ executions = 0 => content = created

(* C9: after set(P, A) of an array A over an array of Content, get(P) is   *)
(* A itself, and after execute() Content at P is A.                        *)
C9_ArrayAtomic ==
  /\ (last.op = "set" /\ last.ok /\ IsArray(last.value)
        /\ IsArray(getDeep(content, last.key))) => get(last.key) = last.value
  /\ (last.op = "execute" /\ last.ok) =>
       \A P \in AllPaths :
         (/\ LeafAt(prev.changes, P)
          /\ IsArray(getDeep(prev.changes, P).v)
          /\ IsArray(getDeep(prev.content, P))) =>
           /\ getDeep(content, P) = getDeep(prev.changes, P).v
           /\ get(P) = getDeep(prev.changes, P).v

(* ['c'] was staged over ['a', 'b'], read back, and committed *)
C9_Witness ==
  /\ last.op = "execute" /\ last.ok
  /\ getDeep(prev.content, <<"tags">>) = Arr(<<"a", "b">>)
  /\ getDeep(prev.changes, <<"tags">>) = Change(Arr(<<"c">>))
  /\ getDeep(content, <<"tags">>) = Arr(<<"c">>)
  /\ get(<<"tags">>) = Arr(<<"c">>)

(* C10 as stated: after execute() fires, Changes is empty and the store is *)
(* no longer dirty.                                                        *)
C10_ExecuteClearsChanges ==
  (last.op = "execute" /\ last.ok) => (changes = EmptyObj /\ ~isDirty)

(* C10, amended: after execute() fires, Changes is what it was before the  *)
(* call, so the store is still dirty; clearing it is left to the caller.   *)
C10_ExecuteKeepsChanges ==
  (last.op = "execute" /\ last.ok) => (changes = prev.changes /\ isDirty)

(* execute() fired and merged the staged age into Content *)
C10_Witness ==
  /\ last.op = "execute" /\ last.ok
  /\ content # prev.content
  /\ LeafAt(changes, <<"age">>)

(* C11: execute() is idempotent: an execute() that follows an execute()    *)
(* with no call in between leaves Content as the first one left it, and    *)
(* merging the staged changes into a Content they were already merged into *)
(* changes nothing, Changes having been kept by the first call; when the   *)
(* gate keeps both calls from firing, Content stays as it was.             *)
C11_ExecuteIdempotent ==
  [][(last.op = "execute" /\ last'.op = "execute") =>
       /\ content' = content
       /\ (last'.ok => mergeDeep(content', changes') = content')]_vars

(* two executions in a row have fired on one staged change: the second     *)
(* found Changes still populated and merged it again                       *)
C11_Witness ==
  /\ ops = 3 /\ executions = 2
  /\ last.op = "execute" /\ last.ok
  /\ isDirty /\ changes = prev.changes
  /\ content = prev.content /\ content # created

(* C12: when Content at P is tagged as a one-to-one relationship and only  *)
(* fields below P have been set, get(P) is the staged sub-object alone:    *)
(* none of the relationship's other fields is merged into it.              *)
C12_RelationshipNotMerged ==
  \A P \in AllPaths :
    ( /\ isBelongsToRelationship(getDeep(content, P))
      /\ ~LeafAt(changes, P) /\ ~LeafAbove(changes, P)
      /\ HasLeaf(getDeep(changes, P)) ) =>
        get(P) = normalizeObject(getDeep(changes, P))

(* the name of a related user is staged and the read of the user shows the *)
(* name alone, without the email the relationship holds                    *)
C12_Witness ==
  /\ last.op = "get" /\ last.key = <<"user">>
  /\ isBelongsToRelationship(getDeep(content, <<"user">>))
  /\ getDeep(content, <<"user", "email">>) = Str("e")
  /\ LeafAt(changes, <<"user", "name">>)
  /\ get(<<"user">>) = Obj(Rec1("name", Str("B")))

(* C18: when a whole plain object O has been set at P itself and Content   *)
(* holds a plain object at P, get(P) is O as it was set: no field of       *)
(* Content that O lacks shows in it.                                       *)
C18_LeafObjectAsIs ==
  \A P \in AllPaths :
    ( /\ LeafAt(changes, P)
      /\ getDeep(changes, P).v.t = "obj"
      /\ getDeep(content, P).t = "obj" ) =>
        get(P) = getDeep(changes, P).v

(* { name: 'B' } is staged at user while Content's user still holds an     *)
(* email and an address; the read of user shows the name alone             *)
C18_Witness ==
  /\ last.op = "set" /\ last.ok /\ last.key = <<"user">>
  /\ LeafAt(changes, <<"user">>)
  /\ getDeep(content, <<"user">>).t = "obj"
  /\ getDeep(content, <<"user", "email">>) = Str("e")
  /\ get(<<"user">>) = Obj(Rec1("name", Str("B")))

(* C19: when the first segment of P is a key of Changes and Changes        *)
(* resolves no value for P itself (only a sibling of P was edited), get(P) *)
(* is safeGet(Content, P), whether or not Errors holds a record at P.      *)
C19_UndefinedFallsToContent ==
  \A P \in AllPaths :
    ( /\ Head(P) \in DOMAIN changes.v
      /\ Len(P) > 1
      /\ getDeep(normalizeObject(changes.v[Head(P)]), Tail(P)).t = "undef" ) =>
        get(P) = safeGet(content, P)

(* the city of the user is staged, an error is recorded at user.name, and  *)
(* the read of user.name is the name Content holds                         *)
C19_Witness ==
  /\ last.op = "get" /\ last.key = <<"user", "name">>
  /\ LeafAt(changes, <<"user", "addr", "city">>)
  /\ getDeep(changes, <<"user", "name">>).t = "undef"
  /\ <<"user", "name">> \in DOMAIN errors
  /\ errors[<<"user", "name">>].value = Str("E")
  /\ get(<<"user", "name">>) = Str("A")

(* C16: get(P) is read-only: it leaves Content, Changes and Errors as they *)
(* were, the sibling merge included, and a second get(P) right after it    *)
(* returns the value the first returned.                                   *)
C16_GetReadOnly ==
  last.op = "get" =>
    /\ content = prev.content
    /\ changes = prev.changes
    /\ errors = prev.errors
    /\ get(last.key) = last.pre

(* a read of user that went through the sibling merge: the name is the     *)
(* staged one, the email is Content's, and Content still holds the old name *)
C16_Witness ==
  /\ last.op = "get" /\ last.key = <<"user">>
  /\ LeafAt(changes, <<"user", "name">>)
  /\ getDeep(content, <<"user", "name">>) = Str("A")
  /\ Prop(last.pre, "name") = Str("B")
  /\ Prop(last.pre, "email") = Str("e")

(* C20: parent and child reads agree: whenever get(P) is a plain object,   *)
(* for every key k of Content at P or of the changes staged at P, field k  *)
(* of get(P) equals get(P.k), at every depth of nesting.                   *)
C20_ParentChildAgree ==
  \A P \in AllPaths :
    get(P).t = "obj" =>
      \A k \in Keys(getDeep(content, P))
                 \cup Keys(getDeep(normalizeObject(changes), P)) :
        Prop(get(P), k) = get(P \o <<k>>)

(* the keys an operation has notified *)
Notified == { notes[i].key : i \in DOMAIN notes }

(* C15: in a set that records a change, addError, pushErrors and           *)
(* _deleteKey, Changes and Errors are fully written before any             *)
(* notification of the call is emitted: an observer called back reads the  *)
(* maps as the call leaves them, never as they were before it. Each call   *)
(* notifies the aggregate key (_changes for a recorded change, _errors for *)
(* an error, the named map for _deleteKey) and the affected key (for       *)
(* _deleteKey, the key qualified by the map's name).                       *)
C15_MutationBeforeNotification ==
  last.op \in {"set", "addError", "pushErrors", "_deleteKey"} =>
    /\ \A i \in DOMAIN notes :
         notes[i].changes = changes /\ notes[i].errors = errors
    /\ (last.op = "set" /\ last.ok) => Notified = {CHANGES, last.key}
    /\ (last.op = "set" /\ ~last.ok) => Notified = {ERRORS, last.key}
    /\ last.op \in {"addError", "pushErrors"} => Notified = {ERRORS, last.key}
    /\ last.op = "_deleteKey" =>
         Notified = {<<last.obj>>, <<last.obj>> \o last.key}

(* an addError has overwritten the record at a key: both observers were    *)
(* called back with the new record in place                                *)
C15_Witness ==
  /\ last.op = "addError" /\ last.key = <<"age">>
  /\ <<"age">> \in DOMAIN prev.errors
  /\ prev.errors[<<"age">>] # errors[<<"age">>]
  /\ Len(notes) = 2
  /\ notes[1].key = ERRORS /\ notes[2].key = <<"age">>
  /\ notes[1].errors = errors /\ notes[1].errors # prev.errors

(* C14: construction through changeset, Changeset or ChangesetKlass fails  *)
(* on its assertion, producing no store, whenever the content is falsy or  *)
(* an array; for every other content it yields a store over that content   *)
(* whose Changes and Errors are empty.                                     *)
C14_ConstructionAsserts ==
  last.op = "changeset" =>
    IF ~Truthy(last.value) \/ IsArray(last.value)
      THEN ~last.ok /\ NoStore
      ELSE /\ last.ok /\ ~NoStore
           /\ content = last.value /\ created = last.value
           /\ changes = EmptyObj
           /\ errors = NoErrors

(* the Changeset factory was called with a non-empty array and no store    *)
(* came of it                                                              *)
C14_Witness ==
  /\ last.op = "changeset" /\ last.obj = "Changeset"
  /\ last.value = Arr(<<"a">>)
  /\ ~last.ok /\ NoStore

(* C13: with an asynchronous validator the call set(P, V) leaves Changes   *)
(* and Errors as they were and get(P) at its old value while the           *)
(* validation is in flight; the pass branch or the fail branch is applied  *)
(* once, at the resolution, which ends the call.                           *)
C13_PendingLeavesStore ==
  /\ last.op = "setAsync" =>
       /\ changes = prev.changes /\ errors = prev.errors
       /\ get(last.key) = last.pre
       /\ pending = Append(prev.pending, Call(last.key, last.value))
  /\ last.op = "resolve" =>
       /\ Len(pending) = Len(prev.pending) - 1
       /\ IF last.ok
            THEN /\ changes = super_setProperty(prev.changes, last.key, last.value)
                 /\ errors = Without(prev.errors, last.key)
            ELSE /\ changes = prev.changes
                 /\ errors = super_addError(prev.errors, last.key,
                               [value |-> last.value, validation |-> <<"invalid">>])

(* set('age', 'B') was in flight with age still read as '10'; its          *)
(* validation has passed and age now reads 'B'                             *)
C13_Witness ==
  /\ last.op = "resolve" /\ last.ok
  /\ last.key = <<"age">> /\ last.value = Str("B")
  /\ Len(prev.pending) = 1 /\ pending = <<>>
  /\ prev.changes = EmptyObj
  /\ last.pre = Str("10")
  /\ get(<<"age">>) = Str("B")

(* C17: when two asynchronous sets on one path P overlap, the state of P   *)
(* in Changes and Errors after both have resolved is the outcome of the    *)
(* one that resolved last alone: a change with its value and no error when *)
(* it passed, an error with its value and no change when it failed.        *)
C17_LastResolutionWins ==
  (last.op = "resolve" /\ last.stale /\ ops = 2 /\ pending = <<>>) =>
    IF last.ok
      THEN /\ getDeep(changes, last.key) = Change(last.value)
           /\ last.key \notin DOMAIN errors
      ELSE /\ last.key \in DOMAIN errors
           /\ errors[last.key].value = last.value
           /\ ~LeafAt(changes, last.key)

====
